---- MODULE Spec2Model ----
(***************************************************************************)
(* Model of src/index.py: the student registration endpoint                *)
(* POST /api/register-student (register_student_and_generate_ticket), the  *)
(* MongoDB collection and the blob store it writes to, and the ticket      *)
(* layout arithmetic.  Each request is a process; every call that leaves   *)
(* the Python process (find_one, put, insert_one, requests.get, file I/O)  *)
(* is a separate step, so concurrent requests interleave between them.     *)
(***************************************************************************)
EXTENDS Integers, FiniteSets, Sequences, TLC

\* ----------------------------------------------------------------- bounds
NumReq == 2          \* number of registration requests sent to the server
NumIds == 2          \* number of distinct values the 8-hex-digit id suffix takes
MaxDim == 8          \* LayoutSpec tries template sides 1..MaxDim, 790+ and 1590+(1..MaxDim)

\* ------------------------------------------------------ program constants
card_width == 800
card_height == 300
PhotoSize == 180
CardMargin == 25
PhotoTopMargin == 60
TextGap == 30
NameRow == 10
YearRow == 70
IdRow == 110

Requests == 1..NumReq

\* Python's None for a form field (request.form.get of an absent key).
None == "<None>"
RollNos == {"R1", "R2"}
\* request.files.get('profileImage'): absent, or a FileStorage(filename, bytes).
NoFile == [present |-> FALSE, filename |-> "", body |-> ""]
Files == {NoFile,
          [present |-> TRUE, filename |-> "", body |-> "jpegbytes"],
          [present |-> TRUE, filename |-> "a.png", body |-> "jpegbytes"]}

AllForms == [studentName : {None, "", "Ann"}, rollNo : {None, ""} \cup RollNos,
             studyYear : {None, "", "Y1"}, profileImage : Files]

\* Python truthiness of a form value / of a FileStorage (bool(filename)).
Truthy(v) == v # None /\ v # ""
TruthyFile(f) == f.present /\ f.filename # ""

\* all([student_name, roll_no, study_year, profile_image_file])
MutAllOmitsFile(f) == /\ Truthy(f.studentName) /\ Truthy(f.rollNo)
                      /\ Truthy(f.studyYear)
AllPresent(f) == /\ Truthy(f.studentName) /\ Truthy(f.rollNo)
                 /\ Truthy(f.studyYear) /\ TruthyFile(f.profileImage)

MissingCount(f) == (IF Truthy(f.studentName) THEN 0 ELSE 1)
                 + (IF Truthy(f.rollNo) THEN 0 ELSE 1)
                 + (IF Truthy(f.studyYear) THEN 0 ELSE 1)
                 + (IF TruthyFile(f.profileImage) THEN 0 ELSE 1)

\* The forms the clients send: every complete form, every form with exactly
\* one field absent or empty, the form with every field absent and the form
\* with every field empty.
AbsentForm == [studentName |-> None, rollNo |-> None, studyYear |-> None,
               profileImage |-> NoFile]
EmptyForm == [studentName |-> "", rollNo |-> "", studyYear |-> "",
              profileImage |-> [present |-> TRUE, filename |-> "", body |-> "jpegbytes"]]
Forms == {f \in AllForms : MissingCount(f) <= 1} \cup {AbsentForm, EmptyForm}

\* ------------------------------------------------------------------ state
VARIABLES
  students_collection,   \* module global: "None" or "students" (lines 20-40)
  template,              \* size of assets/ticket_template.png
  students,              \* documents of db['students']
  blobs,                 \* objects of the blob store
  form,                  \* request.form / request.files of each request
  pc,                    \* the step each request is at ("idle": not yet sent)
  generated_student_id,  \* local of each request, <<>> while unassigned
  profile_pic_url,       \* local of each request, <<>> while unassigned
  profile_pic_ticket,    \* local of each request, <<>> while unassigned
  final_image,           \* local of each request, {} while unassigned
  response,              \* the response each request returned, NoResponse before
  startedAfter           \* history: the requests that had responded when this one arrived

vars == <<students_collection, template, students, blobs, form, pc,
          generated_student_id, profile_pic_url, profile_pic_ticket,
          final_image, response, startedAfter>>

locals == <<generated_student_id, profile_pic_url, profile_pic_ticket, final_image>>

\* -------------------------------------------------------------- responses
NoResponse == [status |-> 0, body |-> [error |-> <<>>]]
Json(status, text) == [status |-> status, body |-> [error |-> text]]

DatabaseDown == Json(500, <<"Database connection failed at startup.">>)
MutMissingFormDataAs422 == Json(422, <<"Missing form data.">>)
MissingFormData == Json(400, <<"Missing form data.">>)
RollNumberExists(roll_no) == Json(409, <<"Roll Number '", roll_no, "' already exists.">>)
ServerError == Json(500, <<"An unexpected server error occurred.">>)
SendFile(image, student_id) ==
  [status |-> 200,
   body |-> [file |-> image, mimetype |-> "image/png",
             download_name |-> <<student_id, "_ticket.png">>]]

Responded(r) == response[r].status # 0

\* datetime.utcnow(): time advances with the arrival of requests.
UtcNow == Cardinality({r \in Requests : pc[r] # "idle"})

\* ------------------------------------------------------------ record store
\* students_collection.find_one({"roll_no": roll_no}): the matching documents
\* (find_one returns one of them, or None when there is none).
MutFindOneByStudentId(roll_no) == {d \in students : d.student_id = roll_no}
FindOne(roll_no) == {d \in students : d.roll_no = roll_no}

\* students_collection.insert_one(doc): the collection is db['students'] as
\* created at lines 35-36, with no index but MongoDB's own unique _id.
InsertOne(doc) ==
  IF \E d \in students : d._id = doc._id
    THEN [ok |-> FALSE, docs |-> students]
    ELSE [ok |-> TRUE, docs |-> students \cup {doc}]

\* ------------------------------------------------------------- blob store
\* f"profile_pics/{generated_student_id}_{profile_image_file.filename}"
MutBlobNameWithoutId(student_id, file_name) == <<"profile_pics/", file_name>>
BlobName(student_id, file_name) == <<"profile_pics/", student_id, "_", file_name>>

\* put(blob_name, body, access='public'): a new public object; the store
\* never replaces an object (it gives each one its own URL).
Put(blob_name, body, r) ==
  [pathname |-> blob_name, body |-> body, url |-> <<"https://blob/", blob_name, r>>]

\* requests.get(url).content
Get(url) == {b.body : b \in {x \in blobs : x.url = url}}

\* ---------------------------------------------------------- id generator
\* "STU-" + first 8 hex digits of a SHA-256 of uuid4 + secret + now.
StudentIds == {<<"STU-", h>> : h \in 1..NumIds}

\* ---------------------------------------------------------- ticket layout
MutTicketLayoutQrNoMargin(W, H) ==
  LET card_left == (W \div 2) - (card_width \div 2)
      card_top == (H \div 2) - (card_height \div 2)
  IN [card_left |-> card_left, card_top |-> card_top,
      profile_pic_on_card_x |-> card_left + CardMargin,
      profile_pic_on_card_y |-> card_top + PhotoTopMargin,
      qr_img_on_card_x |-> card_left + card_width - PhotoSize,
      text_start_x |-> card_left + CardMargin + PhotoSize + TextGap,
      name_y |-> card_top + PhotoTopMargin + NameRow,
      year_y |-> card_top + PhotoTopMargin + YearRow,
      id_y |-> card_top + PhotoTopMargin + IdRow]
TicketLayout(W, H) ==
  LET card_center_x == W \div 2
      card_center_y == H \div 2
      card_left == card_center_x - (card_width \div 2)
      card_top == card_center_y - (card_height \div 2)
      profile_pic_on_card_x == card_left + CardMargin
      profile_pic_on_card_y == card_top + PhotoTopMargin
      qr_img_on_card_x == card_left + card_width - PhotoSize - CardMargin
      text_start_x == profile_pic_on_card_x + PhotoSize + TextGap
  IN [card_left |-> card_left, card_top |-> card_top,
      profile_pic_on_card_x |-> profile_pic_on_card_x,
      profile_pic_on_card_y |-> profile_pic_on_card_y,
      qr_img_on_card_x |-> qr_img_on_card_x,
      text_start_x |-> text_start_x,
      name_y |-> profile_pic_on_card_y + NameRow,
      year_y |-> profile_pic_on_card_y + YearRow,
      id_y |-> profile_pic_on_card_y + IdRow]

\* ------------------------------------------------------------------- init
TemplateSize == [width |-> 1200, height |-> 630]

InitRequests ==
  /\ form = [r \in Requests |-> AbsentForm]
  /\ pc = [r \in Requests |-> "idle"]
  /\ generated_student_id = [r \in Requests |-> <<>>]
  /\ profile_pic_url = [r \in Requests |-> <<>>]
  /\ profile_pic_ticket = [r \in Requests |-> <<>>]
  /\ final_image = [r \in Requests |-> {}]
  /\ response = [r \in Requests |-> NoResponse]
  /\ startedAfter = [r \in Requests |-> {}]

\* Module load (lines 20-40): the collection handle is set when MONGO_URI is
\* set and the server answers, and stays None otherwise.
Init ==
  /\ students_collection \in {"None", "students"}
  /\ template = TemplateSize
  /\ students = {}
  /\ blobs = {}
  /\ InitRequests

\* ---------------------------------------------------------------- handler
Return(r, resp) == response' = [response EXCEPT ![r] = resp]
Goto(r, step) == pc' = [pc EXCEPT ![r] = step]
At(r, step) == pc[r] = step /\ ~Responded(r)

\* Lines 64-79: the request arrives (requests are numbered in arrival
\* order), the handle is tested, the form is read.
Receive(r) ==
  /\ pc[r] = "idle"
  /\ \A q \in Requests : q < r => pc[q] # "idle"
  /\ \E f \in Forms : form' = [form EXCEPT ![r] = f]
  /\ startedAfter' = [startedAfter EXCEPT ![r] = {q \in Requests : Responded(q)}]
  /\ IF students_collection = "None"
       THEN Goto(r, "entry") /\ Return(r, DatabaseDown)
       ELSE Goto(r, "step1") /\ UNCHANGED response
  /\ UNCHANGED <<students_collection, template, students, blobs, locals>>

\* Lines 81-83.
Validate(r) ==
  /\ At(r, "step1")
  /\ IF ~AllPresent(form[r])
       THEN Return(r, MissingFormData) /\ UNCHANGED pc
       ELSE Goto(r, "step2") /\ UNCHANGED response
  /\ UNCHANGED <<students_collection, template, students, blobs, form, locals, startedAfter>>

\* Lines 85-90: find_one answers.
MutDuplicateCheckFallsThrough(r) ==
  /\ At(r, "step2")
  /\ Goto(r, "step3") /\ UNCHANGED response
  /\ UNCHANGED <<students_collection, template, students, blobs, form, locals, startedAfter>>
DuplicateCheck(r) ==
  /\ At(r, "step2")
  /\ IF FindOne(form[r].rollNo) # {}
       THEN Return(r, RollNumberExists(form[r].rollNo)) /\ UNCHANGED pc
       ELSE Goto(r, "step3") /\ UNCHANGED response
  /\ UNCHANGED <<students_collection, template, students, blobs, form, locals, startedAfter>>

\* Lines 92-95.
GenerateId(r) ==
  /\ At(r, "step3")
  /\ \E id \in StudentIds :
       generated_student_id' = [generated_student_id EXCEPT ![r] = id]
  /\ Goto(r, "step4")
  /\ UNCHANGED <<students_collection, template, students, blobs, form, response,
                 profile_pic_url, profile_pic_ticket, final_image, startedAfter>>

\* Lines 97-103: put succeeds.
UploadImage(r) ==
  /\ At(r, "step4")
  /\ LET filename == BlobName(generated_student_id[r], form[r].profileImage.filename)
         blob_result == Put(filename, form[r].profileImage.body, r)
     IN /\ blobs' = blobs \cup {blob_result}
        /\ profile_pic_url' = [profile_pic_url EXCEPT ![r] = blob_result.url]
  /\ Goto(r, "step5")
  /\ UNCHANGED <<students_collection, template, students, form, response,
                 generated_student_id, profile_pic_ticket, final_image, startedAfter>>

NewStudentDocument(r) ==
  [_id |-> r, roll_no |-> form[r].rollNo, student_id |-> generated_student_id[r],
   name |-> form[r].studentName, year |-> form[r].studyYear,
   profile_pic_url |-> profile_pic_url[r], status |-> "Active",
   registered_at |-> UtcNow]

\* Lines 105-113: insert_one answers (DuplicateKeyError is an Exception).
SaveDocument(r) ==
  /\ At(r, "step5")
  /\ LET result == InsertOne(NewStudentDocument(r))
     IN /\ students' = result.docs
        /\ IF result.ok
             THEN Goto(r, "step6") /\ UNCHANGED response
             ELSE Return(r, ServerError) /\ UNCHANGED pc
  /\ UNCHANGED <<students_collection, template, blobs, form, locals, startedAfter>>

\* Lines 115-138: template and fonts open, the photo is fetched back and
\* resized, the QR code is made, the card is drawn and flattened.
GenerateTicket(r) ==
  /\ At(r, "step6")
  /\ \E content \in Get(profile_pic_url[r]) :
       LET photo == <<content, PhotoSize, PhotoSize>>
           qr_img == <<generated_student_id[r], PhotoSize, PhotoSize>>
       IN /\ profile_pic_ticket' = [profile_pic_ticket EXCEPT ![r] = photo]
          /\ final_image' = [final_image EXCEPT ![r] =
               {[size |-> template,
                 layout |-> TicketLayout(template.width, template.height),
                 photo |-> photo, qr |-> qr_img,
                 name |-> form[r].studentName, year |-> form[r].studyYear,
                 id |-> <<"ID: ", generated_student_id[r]>>]}]
  /\ Goto(r, "step7")
  /\ UNCHANGED <<students_collection, template, students, blobs, form, response,
                 generated_student_id, profile_pic_url, startedAfter>>

\* Lines 140-146.
ReturnImage(r) ==
  /\ At(r, "step7")
  /\ \E img \in final_image[r] : Return(r, SendFile(img, generated_student_id[r]))
  /\ UNCHANGED <<students_collection, template, students, blobs, form, pc, locals, startedAfter>>

\* The steps inside the try block that call out of the process and can raise.
RaisingSteps == {"step2", "step4", "step5", "step6", "step7"}

\* Lines 148-151: a call of the current step raises; nothing is undone.
MutUnexpectedErrorRollsBack(r) ==
  /\ ~Responded(r) /\ pc[r] \in RaisingSteps
  /\ Return(r, ServerError)
  /\ students' = {d \in students : d._id # r}
  /\ blobs' = {b \in blobs : b.url # profile_pic_url[r]}
  /\ UNCHANGED <<students_collection, template, form, pc, locals, startedAfter>>
UnexpectedError(r) ==
  /\ ~Responded(r) /\ pc[r] \in RaisingSteps
  /\ Return(r, ServerError)
  /\ UNCHANGED <<students_collection, template, students, blobs, form, pc, locals, startedAfter>>

Next ==
  \E r \in Requests :
    \/ Receive(r)
    \/ Validate(r)
    \/ DuplicateCheck(r)
    \/ GenerateId(r)
    \/ UploadImage(r)
    \/ SaveDocument(r)
    \/ GenerateTicket(r)
    \/ ReturnImage(r)
    \/ UnexpectedError(r)

Spec == Init /\ [][Next]_vars

\* ------------------------------------------------- layout specification
\* The drawing logic applied to templates of many sizes: one complete
\* request has passed the insert and is about to generate its ticket.
Dims == (1..MaxDim) \cup {790 + i : i \in 1..MaxDim} \cup {1590 + i : i \in 1..MaxDim}

LayoutForm == [studentName |-> "Ann", rollNo |-> "R1", studyYear |-> "Y1",
               profileImage |-> [present |-> TRUE, filename |-> "a.png", body |-> "jpegbytes"]]

LayoutInit ==
  /\ students_collection = "students"
  /\ template \in [width : Dims, height : Dims]
  /\ form = [r \in Requests |-> IF r = 1 THEN LayoutForm ELSE AbsentForm]
  /\ pc = [r \in Requests |-> IF r = 1 THEN "step6" ELSE "idle"]
  /\ generated_student_id = [r \in Requests |-> IF r = 1 THEN <<"STU-", 1>> ELSE <<>>]
  /\ blobs = {Put(BlobName(<<"STU-", 1>>, "a.png"), "jpegbytes", 1)}
  /\ profile_pic_url = [r \in Requests |->
        IF r = 1 THEN <<"https://blob/", BlobName(<<"STU-", 1>>, "a.png"), 1>> ELSE <<>>]
  /\ profile_pic_ticket = [r \in Requests |-> <<>>]
  /\ final_image = [r \in Requests |-> {}]
  /\ response = [r \in Requests |-> NoResponse]
  /\ startedAfter = [r \in Requests |-> {}]
  /\ students = {NewStudentDocument(1)}

LayoutNext == \E r \in Requests : GenerateTicket(r)

LayoutSpec == LayoutInit /\ [][LayoutNext]_vars

\* ------------------------------------------------------------------ claims
RecordsWithRoll(roll_no) == {d \in students : d.roll_no = roll_no}
DocsOf(r) == {d \in students : d._id = r}
BlobsOf(r) == {b \in blobs : b.url[3] = r}
Failed(r) == response[r] = ServerError \/ response[r] = DatabaseDown
\* A form with at least one of the four fields absent or empty.
FieldMissing(f) ==
  \/ f.studentName \in {None, ""}
  \/ f.rollNo \in {None, ""}
  \/ f.studyYear \in {None, ""}
  \/ ~f.profileImage.present \/ f.profileImage.filename = ""
Complete(r) == pc[r] # "idle" /\ ~FieldMissing(form[r])

\* r is the first registration of its roll number: every other complete
\* request for that roll number arrived after r had responded.
FirstOfRoll(r) ==
  \A q \in Requests \ {r} :
    Complete(q) /\ form[q].rollNo = form[r].rollNo => r \in startedAfter[q]

\* C1: two complete registrations of one roll number, the second sent after
\* the first responded and no step of either failing: the first responds
\* 200, the second 409, and the store holds exactly the first one's record,
\* with the fields the first request gave it.
C1_SecondRegistrationConflicts ==
  \A r1 \in Requests : \A r2 \in Requests \ {r1} :
    ( /\ Complete(r1) /\ Complete(r2)
      /\ form[r1].rollNo = form[r2].rollNo
      /\ FirstOfRoll(r1)
      /\ r1 \in startedAfter[r2]
      /\ Responded(r2)
      /\ ~Failed(r1) /\ ~Failed(r2) )
    => /\ response[r1].status = 200
       /\ response[r2].status = 409
       /\ RecordsWithRoll(form[r1].rollNo) = DocsOf(r1)
       /\ \E d \in DocsOf(r1) :
            /\ DocsOf(r1) = {d}
            /\ d.roll_no = form[r1].rollNo
            /\ d.name = form[r1].studentName
            /\ d.year = form[r1].studyYear
            /\ d.student_id = generated_student_id[r1]
            /\ d.profile_pic_url = profile_pic_url[r1]
            /\ d.status = "Active"

C1_Witness ==
  \E r1 \in Requests : \E r2 \in Requests \ {r1} :
    /\ Complete(r1) /\ Complete(r2)
    /\ form[r1].rollNo = form[r2].rollNo
    /\ FirstOfRoll(r1)
    /\ r1 \in startedAfter[r2]
    /\ response[r1].status = 200
    /\ response[r2].status = 409

\* C2: the record store never holds two records with the same roll_no, and
\* at most one of the requests for one roll number responds 200.
C2_RollNoUnique ==
  /\ \A d1 \in students : \A d2 \in students :
       d1.roll_no = d2.roll_no => d1 = d2
  /\ \A r1 \in Requests : \A r2 \in Requests :
       ( /\ response[r1].status = 200 /\ response[r2].status = 200
         /\ form[r1].rollNo = form[r2].rollNo ) => r1 = r2

\* C3 as stated: a request with a field absent or empty responds 400
\* 'Missing form data.' and writes no record and no asset.
C3_MissingFieldAlways400 ==
  \A r \in Requests :
    pc[r] # "idle" /\ FieldMissing(form[r]) /\ Responded(r)
      => /\ response[r] = MissingFormData
         /\ DocsOf(r) = {} /\ BlobsOf(r) = {}

\* C3 amended: a request with a field absent or empty responds 400 'Missing
\* form data.' when the collection handle was set at startup and 500
\* 'Database connection failed at startup.' when it was not; either way it
\* never gets past the validation, writes no record and no asset, and sets
\* none of the handler's later locals.
C3_MissingFieldRejected ==
  \A r \in Requests :
    pc[r] # "idle" /\ FieldMissing(form[r])
      => /\ pc[r] \in {"entry", "step1"}
         /\ Responded(r) =>
              response[r] = (IF students_collection = "None"
                               THEN DatabaseDown ELSE MissingFormData)
         /\ DocsOf(r) = {} /\ BlobsOf(r) = {}
         /\ generated_student_id[r] = <<>> /\ profile_pic_url[r] = <<>>
         /\ final_image[r] = {}

C3_Witness ==
  \E r \in Requests :
    /\ FieldMissing(form[r])
    /\ response[r] = MissingFormData
    /\ Truthy(form[r].rollNo)
    /\ RecordsWithRoll(form[r].rollNo) # {}

\* A step of request r.
Steps(r) == pc'[r] # pc[r] \/ response'[r] # response[r]

\* What a request that responded 409 has done.
C4_ConflictFrame ==
  \A r \in Requests :
    response[r].status = 409
      => /\ response[r] = RollNumberExists(form[r].rollNo)
         /\ pc[r] = "step2"
         /\ generated_student_id[r] = <<>> /\ profile_pic_url[r] = <<>>
         /\ DocsOf(r) = {} /\ BlobsOf(r) = {}

\* The step that takes the duplicate check's answer when a record is found.
C4_ConflictStep ==
  \A r \in Requests :
    ( /\ At(r, "step2") /\ RecordsWithRoll(form[r].rollNo) # {}
      /\ Steps(r) /\ response'[r] # ServerError )
    => /\ response'[r].status = 409
       /\ UNCHANGED <<students, blobs, locals>>

\* C4: when the duplicate check of a complete request finds a record with
\* the request's roll number, the request responds 409 with the roll number
\* in the message and has no side effect: no student id is generated, no
\* asset is put, no record is inserted, and the stores are as they were.
C4_DuplicateHasNoSideEffect == []C4_ConflictFrame /\ [][C4_ConflictStep]_vars

C4_Witness ==
  \E r \in Requests : response[r].status = 409 /\ blobs # {}

\* The two bodies a 500 response is given in the source.
GenericBody == [error |-> <<"An unexpected server error occurred.">>]
StartupBody == [error |-> <<"Database connection failed at startup.">>]
Status500(body) == [status |-> 500, body |-> body]

\* C5 as stated: every response has status 200, 400, 409 or 500, and every
\* 500 carries the one body "An unexpected server error occurred.".
C5_Every500IsGeneric ==
  \A r \in Requests :
    Responded(r)
      => /\ response[r].status \in {200, 400, 409, 500}
         /\ response[r].status = 500 => response[r] = Status500(GenericBody)

\* The status and body of every response given.
C5_StatusAndBody ==
  \A r \in Requests :
    Responded(r)
      => /\ response[r].status \in {200, 400, 409, 500}
         /\ response[r].status = 500 =>
              IF students_collection = "None"
                THEN response[r] = Status500(StartupBody) /\ pc[r] = "entry"
                ELSE response[r] = Status500(GenericBody) /\ pc[r] \in RaisingSteps
         /\ response[r].status = 400 => response[r].body = [error |-> <<"Missing form data.">>]
         /\ students_collection = "None" => response[r].status = 500

\* A request that has responded takes no further step.
C5_RespondsOnce ==
  \A r \in Requests : Responded(r) => response'[r] = response[r] /\ pc'[r] = pc[r]

\* C5 amended: a request responds at most once, with status 200, 400, 409
\* or 500; a failure of any step inside the try block (find, put, insert,
\* fetch-back or rendering, sending) responds 500 with the one body "An
\* unexpected server error occurred.", and a collection handle that was
\* not set at startup responds 500 with the body "Database connection
\* failed at startup.", before the form is validated.
C5_OneResponse == []C5_StatusAndBody /\ [][C5_RespondsOnce]_vars

C5_Witness ==
  \E r1 \in Requests : \E r2 \in Requests :
    /\ response[r1] = ServerError /\ pc[r1] = "step5"
    /\ response[r2] = ServerError /\ pc[r2] = "step6"

\* The insert step of a request whose roll_no or student_id is already stored.
C6_InsertStep ==
  \A r \in Requests :
    ( /\ At(r, "step5") /\ Steps(r)
      /\ \E d \in students : \/ d.roll_no = form[r].rollNo
                             \/ d.student_id = generated_student_id[r] )
    => /\ students' = students
       /\ response'[r] = ServerError

\* C6: an insert of a record whose roll_no or student_id is that of a
\* stored record is rejected and leaves the store unchanged.
C6_InsertRejectsDuplicates == [][C6_InsertStep]_vars

\* C7: no two records of the store have the same student_id.
C7_StudentIdUnique ==
  \A d1 \in students : \A d2 \in students :
    d1.student_id = d2.student_id => d1._id = d2._id

\* The successor of each step.
StepOrder == {<<"idle", "entry">>, <<"idle", "step1">>, <<"step1", "step2">>,
              <<"step2", "step3">>, <<"step3", "step4">>, <<"step4", "step5">>,
              <<"step5", "step6">>, <<"step6", "step7">>}

C8_InOrder == \A r \in Requests : pc'[r] # pc[r] => <<pc[r], pc'[r]>> \in StepOrder

C8_State ==
  \A r \in Requests :
    /\ generated_student_id[r] # <<>> <=> pc[r] \in {"step4", "step5", "step6", "step7"}
    /\ BlobsOf(r) # {} <=> pc[r] \in {"step5", "step6", "step7"}
    /\ DocsOf(r) # {} <=> pc[r] \in {"step6", "step7"}
    /\ DocsOf(r) # {} => \E b \in BlobsOf(r) : \A d \in DocsOf(r) : d.profile_pic_url = b.url
    /\ final_image[r] # {} <=> pc[r] = "step7"
    /\ response[r].status = 200
         => /\ pc[r] = "step7"
            /\ \E b \in blobs :
                 /\ b.pathname = <<"profile_pics/", generated_student_id[r], "_",
                                   form[r].profileImage.filename>>
                 /\ b.body = form[r].profileImage.body
                 /\ b.url = profile_pic_url[r]
            /\ \E d \in students :
                 /\ d.roll_no = form[r].rollNo
                 /\ d.student_id = generated_student_id[r]
                 /\ d.status = "Active"
            /\ response[r].body.download_name = <<generated_student_id[r], "_ticket.png">>

\* C8: within a request the steps run in the order validation, duplicate
\* check, id generation, asset put, record insert, ticket generation,
\* response; a record exists only after its asset was put, a ticket only
\* after its record was inserted, and a 200 response implies the asset under
\* profile_pics/{student_id}_{filename} and an Active record with the
\* request's roll_no and student_id.
C8_StepsInOrder == []C8_State /\ [][C8_InOrder]_vars

C8_Witness ==
  \E r \in Requests : response[r].status = 200 /\ Cardinality(students) >= 2

\* What is in the stores after a request failed at each step.
C9_State ==
  \A r \in Requests :
    response[r] = ServerError =>
      /\ pc[r] = "step2" => generated_student_id[r] = <<>> /\ BlobsOf(r) = {} /\ DocsOf(r) = {}
      /\ pc[r] = "step4" => BlobsOf(r) = {} /\ DocsOf(r) = {}
      /\ pc[r] = "step5" => BlobsOf(r) # {} /\ DocsOf(r) = {} /\ final_image[r] = {}
      /\ pc[r] \in {"step6", "step7"} =>
           /\ BlobsOf(r) # {} /\ DocsOf(r) # {}
           /\ \A q \in Requests :
                ( /\ r \in startedAfter[q] /\ Complete(q)
                  /\ form[q].rollNo = form[r].rollNo
                  /\ Responded(q) /\ ~Failed(q) )
                => response[q].status = 409

C9_NothingUndone == students \subseteq students' /\ blobs \subseteq blobs'

\* C9: a failing step ends the request with 500 and undoes nothing: after a
\* failed insert the photo is in the asset store with no record, after a
\* failed ticket generation or send the photo and the record are both in
\* place; nothing is ever removed from either store; and a complete
\* registration of that roll number sent after such a failure, whose own
\* duplicate check answers, responds 409.
C9_NoRollback == []C9_State /\ [][C9_NothingUndone]_vars

C9_Witness ==
  \E r \in Requests : \E q \in Requests :
    /\ response[r] = ServerError /\ pc[r] = "step6"
    /\ r \in startedAfter[q]
    /\ form[q].rollNo = form[r].rollNo
    /\ response[q].status = 409
    /\ Cardinality(students) = 1

\* C10: for every template size the card is at (W div 2 - 400, H div 2 -
\* 150), the photo at (left + 25, top + 60), the QR code at (left + 595,
\* top + 60); both 180x180 squares lie inside the 800x300 card and do not
\* overlap; the text starts at left + 235, 30 px right of the photo and left
\* of the QR code, on rows photo_top + 10, + 70 and + 110.
C10_Layout ==
  \A r \in Requests : \A img \in final_image[r] :
    LET W == img.size.width
        H == img.size.height
        L == img.layout
        left == (W \div 2) - 400
        top == (H \div 2) - 150
    IN /\ L.card_left = left /\ L.card_top = top
       /\ L.profile_pic_on_card_x = left + 25
       /\ L.profile_pic_on_card_y = top + 60
       /\ L.qr_img_on_card_x = left + 595
       /\ img.photo[2] = 180 /\ img.photo[3] = 180
       /\ img.qr[2] = 180 /\ img.qr[3] = 180
       \* both squares inside the card rectangle
       /\ left <= L.profile_pic_on_card_x
       /\ L.profile_pic_on_card_x + img.photo[2] <= left + 800
       /\ left <= L.qr_img_on_card_x
       /\ L.qr_img_on_card_x + img.qr[2] <= left + 800
       /\ top <= L.profile_pic_on_card_y
       /\ L.profile_pic_on_card_y + img.photo[3] <= top + 300
       \* no overlap
       /\ L.profile_pic_on_card_x + img.photo[2] <= L.qr_img_on_card_x
       \* text column and rows
       /\ L.text_start_x = left + 235
       /\ L.text_start_x = L.profile_pic_on_card_x + img.photo[2] + 30
       /\ L.text_start_x < L.qr_img_on_card_x
       /\ L.name_y = L.profile_pic_on_card_y + 10
       /\ L.year_y = L.profile_pic_on_card_y + 70
       /\ L.id_y = L.profile_pic_on_card_y + 110

C10_Witness ==
  \E r \in Requests : \E img \in final_image[r] :
    /\ img.size.width % 2 = 1 /\ img.size.height % 2 = 1
    /\ img.layout.card_left < 0 /\ img.layout.card_top < 0

====
